---- MODULE Spec2Model ----
(***************************************************************************)
(* A model of ternary-tools.rs.  The GGUF inspection path: the byte       *)
(* readers, the typed metadata value decoder, the metadata table decoder, *)
(* and the sessions run by gguf_info and gguf_show (Spec).  The           *)
(* calculator: tritjs_eval_expression over i32 and int_to_ternary, as run *)
(* by run_calc (CalcSpec).                                                *)
(*                                                                        *)
(* A file is a sequence of bytes (0..255) and the cursor a byte offset.   *)
(* Every decoder is an operator from (file, position) to a result record  *)
(* [ok, val, pos, err]: the value, the position the cursor is left at and *)
(* the error.  parse_gguf_header, parse_tensors, read_gguf_str,           *)
(* read_u32_le and read_u64_le are called by the source but not defined   *)
(* in it; they are modelled from the format description (sections 4.1,    *)
(* 4.2, 4.5, 6) and are marked so where they are defined.                 *)
(***************************************************************************)
EXTENDS Integers, Sequences, FiniteSets

VARIABLES
    file,       \* the bytes of the opened file
    input,      \* how the file was built (what it encodes); never read by the program
    op,         \* "info" (gguf_info) or "show" (gguf_show)
    target,     \* gguf_show's tensor_name
    pos,        \* the file cursor
    stage,      \* the session's position in the handler
    ran,        \* the stage that ran last
    header,     \* the decoded header
    metadata,   \* the decoded metadata table: key -> stored value
    decoded,    \* the (key, tag, value) triples parse_metadata decoded, in order
    tensors,    \* the decoded tensor descriptors
    preview,    \* the values gguf_show printed
    error,      \* the error the session ended with
    expr,       \* the calculator's input expression, a string
    built,      \* how the expression was built; never read by the program
    overflow_checks,  \* whether the build traps integer overflow (debug profile)
    result,     \* what tritjs_eval_expression returned
    printed,    \* the ternary string printed for the result
    step        \* the calculator run's position

\* the calculator's variables
calc == <<expr, built, overflow_checks, result, printed, step>>

vars == <<file, input, op, target, pos, stage, ran, header, metadata, decoded,
          tensors, preview, error, expr, built, overflow_checks, result,
          printed, step>>

(***************************************************************************)
(* Bounds of the inputs.                                                  *)
(***************************************************************************)
\* metadata entries in an untruncated file
MaxEntries == 2
\* metadata entries in a file cut at every length
MaxTruncEntries == 1
\* deepest array nesting an input holds
MaxNest == 2
\* float32 elements in the tensor-data region
MaxFloats == 6

(***************************************************************************)
(* Results.                                                               *)
(***************************************************************************)
Ok(v, p) == [ok |-> TRUE, val |-> v, pos |-> p, err |-> "none", tag |-> 0]

Err(e, p) == [ok |-> FALSE, val |-> 0, pos |-> p, err |-> e, tag |-> 0]

ErrTag(e, p, t) == [ok |-> FALSE, val |-> 0, pos |-> p, err |-> e, tag |-> t]

NoError == [kind |-> "none", tag |-> 0]

Zeros(n) == [i \in 1..n |-> 0]

Min(a, b) == IF a <= b THEN a ELSE b

(***************************************************************************)
(* Little-endian integers.  Values stay below 2^31 in every input.        *)
(***************************************************************************)
RECURSIVE ULE(_)
ULE(b) ==
    IF b = <<>> \/ \A i \in 1..Len(b) : b[i] = 0
    THEN 0
    ELSE b[1] + 256 * ULE(Tail(b))

\* `as i8` / `as i16` / `as i32` / `as i64` of the unsigned value of the bytes
SLE(b) ==
    IF b[Len(b)] >= 128
    THEN -(ULE([i \in 1..Len(b) |-> 255 - b[i]])) - 1
    ELSE ULE(b)

(***************************************************************************)
(* std::io::Read::read_exact on a File at offset pos: n bytes, or         *)
(* UnexpectedEof with the buffer filled as far as the file goes and the   *)
(* cursor at the end of the file.                                         *)
(***************************************************************************)
Available(f, p) == IF p >= Len(f) THEN 0 ELSE Len(f) - p

read_exact(f, p, n) ==
    IF n <= Available(f, p)
    THEN Ok(SubSeq(f, p + 1, p + n), p + n)
    ELSE [ok |-> FALSE,
          val |-> SubSeq(f, p + 1, p + Available(f, p)) \o Zeros(n - Available(f, p)),
          pos |-> p + Available(f, p),
          err |-> "Truncated",
          tag |-> 0]

(***************************************************************************)
(* The readers of the source: read_exact(...).unwrap_or_default() drops   *)
(* the error and the reader returns what the buffer holds.                *)
(***************************************************************************)
read_u8(f, p) ==
    LET r == read_exact(f, p, 1) IN Ok(r.val[1], r.pos)

read_i8(f, p) ==
    LET r == read_exact(f, p, 1) IN Ok(SLE(r.val), r.pos)

read_u16_le(f, p) ==
    LET r == read_exact(f, p, 2) IN Ok(ULE(r.val), r.pos)

read_i16_le(f, p) ==
    LET r == read_exact(f, p, 2) IN Ok(SLE(r.val), r.pos)

\* the value is kept as its four bytes: from_le_bytes is a reinterpretation
read_f32_le(f, p) ==
    LET r == read_exact(f, p, 4) IN Ok(r.val, r.pos)

read_f64_le(f, p) ==
    LET r == read_exact(f, p, 8) IN Ok(r.val, r.pos)

(***************************************************************************)
(* The readers the source calls and does not define, after section 4.1:   *)
(* built on read-exact, failing with Truncated.  Where the source uses    *)
(* the result as a plain integer (lines 713, 719, 720, 727, 760, 772) the *)
(* failure ends the decode, as it does at line 699.                       *)
(***************************************************************************)
read_u32_le(f, p) ==
    LET r == read_exact(f, p, 4)
    IN  IF r.ok THEN Ok(ULE(r.val), r.pos) ELSE Err("Truncated", r.pos)

read_u64_le(f, p) ==
    LET r == read_exact(f, p, 8)
    IN  IF r.ok THEN Ok(ULE(r.val), r.pos) ELSE Err("Truncated", r.pos)

read_i32_le(f, p) ==
    LET r == read_exact(f, p, 4)
    IN  IF r.ok THEN Ok(SLE(r.val), r.pos) ELSE Err("Truncated", r.pos)

read_i64_le(f, p) ==
    LET r == read_exact(f, p, 8)
    IN  IF r.ok THEN Ok(SLE(r.val), r.pos) ELSE Err("Truncated", r.pos)

\* lossy UTF-8: a byte that is not ASCII becomes U+FFFD (the inputs are ASCII)
Utf8Lossy(b) == [i \in 1..Len(b) |-> IF b[i] < 128 THEN b[i] ELSE 65533]

\* section 4.3/6: an 8-byte length, then that many bytes
read_gguf_str(f, p) ==
    LET n == read_u64_le(f, p)
    IN  IF ~n.ok THEN n
        ELSE LET b == read_exact(f, n.pos, n.val)
             IN  IF b.ok THEN Ok(Utf8Lossy(b.val), b.pos) ELSE Err("Truncated", b.pos)

(***************************************************************************)
(* GgufValue and its Display.  A value is [kind, v]; a float keeps its    *)
(* bytes, a string its characters, an array its elements.  An array also  *)
(* records, as elem, the element type tag it was decoded with; the        *)
(* program's Array(Vec<GgufValue>) does not keep it and nothing reads it.  *)
(***************************************************************************)
Value(k, x) == [kind |-> k, v |-> x]

RECURSIVE Dec(_)
Dec(n) == IF n < 10 THEN <<48 + n>> ELSE Dec(n \div 10) \o <<48 + (n % 10)>>

IntText(n) == IF n < 0 THEN <<45>> \o Dec(-n) ELSE Dec(n)

\* Display of f32/f64 for the bit patterns the inputs hold: 0.0, the f32 0.5
\* and the f64 2.0
FloatText(b) ==
    CASE \A i \in 1..Len(b) : b[i] = 0 -> <<48>>
      [] b = <<0, 0, 0, 63>> -> <<48, 46, 53>>
      [] b = <<0, 0, 0, 0, 0, 0, 0, 64>> -> <<50>>

RECURSIVE to_string(_)
RECURSIVE JoinText(_, _)
JoinText(arr, i) ==
    IF i > Len(arr) THEN <<>>
    ELSE (IF i > 1 THEN <<44, 32>> ELSE <<>>) \o to_string(arr[i]) \o JoinText(arr, i + 1)

to_string(x) ==
    CASE x.kind \in {"Uint8", "Int8", "Uint16", "Int16", "Uint32", "Int32",
                     "Uint64", "Int64"} -> IntText(x.v)
      [] x.kind \in {"Float32", "Float64"} -> FloatText(x.v)
      [] x.kind = "Bool" -> IF x.v THEN <<116, 114, 117, 101>>
                                   ELSE <<102, 97, 108, 115, 101>>
      [] x.kind = "String" -> x.v
      [] x.kind = "Array" -> <<91>> \o JoinText(x.v, 1) \o <<93>>

(***************************************************************************)
(* parse_gguf_value: the match on type_id.                                *)
(***************************************************************************)
\* the variant each arm constructs
VariantOf_shifted(type_id) ==
    CASE type_id = 0 -> "Uint8"   [] type_id = 1 -> "Int8"
      [] type_id = 2 -> "Uint16"  [] type_id = 3 -> "Int16"
      [] type_id = 4 -> "Uint32"  [] type_id = 5 -> "Int32"
      [] type_id = 6 -> "Float32" [] type_id = 7 -> "Bool"
      [] type_id = 8 -> "String"  [] type_id = 9 -> "Array"
      [] type_id = 10 -> "Int64"  [] type_id = 11 -> "Uint64"
      [] type_id = 12 -> "Float64"

VariantOf(type_id) ==
    CASE type_id = 0 -> "Uint8"   [] type_id = 1 -> "Int8"
      [] type_id = 2 -> "Uint16"  [] type_id = 3 -> "Int16"
      [] type_id = 4 -> "Uint32"  [] type_id = 5 -> "Int32"
      [] type_id = 6 -> "Float32" [] type_id = 7 -> "Bool"
      [] type_id = 8 -> "String"  [] type_id = 9 -> "Array"
      [] type_id = 10 -> "Uint64" [] type_id = 11 -> "Int64"
      [] type_id = 12 -> "Float64"

\* the `_ =>` arm, as a decoder that reads nothing and yields the tag number
\* as a value
UnsupportedType_placeholder(p, type_id) == Ok(Value("Uint32", type_id), p)

\* the `_ =>` arm: Err(format!("Unsupported type_id: {}", type_id))
UnsupportedType(p, type_id) == ErrTag("Unsupported", p, type_id)

\* a reader's result wrapped in the arm's variant
Wrap(type_id, r) == IF r.ok THEN Ok(Value(VariantOf(type_id), r.val), r.pos) ELSE r

RECURSIVE parse_gguf_value(_, _, _)
RECURSIVE ArrayElems(_, _, _, _, _)
\* for _ in 0..len { arr.push(parse_gguf_value(file, arr_type)?) }
ArrayElems(f, p, arr_type, left, arr) ==
    IF left = 0 THEN Ok([kind |-> VariantOf(9), v |-> arr, elem |-> arr_type], p)
    ELSE LET e == parse_gguf_value(f, p, arr_type)
         IN  IF ~e.ok THEN e
             ELSE ArrayElems(f, e.pos, arr_type, left - 1, Append(arr, e.val))

parse_gguf_value(f, p, type_id) ==
    CASE type_id = 0 -> Wrap(0, read_u8(f, p))
      [] type_id = 1 -> Wrap(1, read_i8(f, p))
      [] type_id = 2 -> Wrap(2, read_u16_le(f, p))
      [] type_id = 3 -> Wrap(3, read_i16_le(f, p))
      [] type_id = 4 -> Wrap(4, read_u32_le(f, p))
      [] type_id = 5 -> Wrap(5, read_i32_le(f, p))
      [] type_id = 6 -> Wrap(6, read_f32_le(f, p))
      [] type_id = 7 -> LET r == read_u8(f, p) IN Wrap(7, Ok(r.val # 0, r.pos))
      [] type_id = 8 -> Wrap(8, read_gguf_str(f, p))
      [] type_id = 9 ->
            LET arr_type == read_u32_le(f, p)
            IN  IF ~arr_type.ok THEN arr_type
                ELSE LET len == read_u64_le(f, arr_type.pos)
                     IN  IF ~len.ok THEN len
                         ELSE ArrayElems(f, len.pos, arr_type.val, len.val, <<>>)
      [] type_id = 10 -> Wrap(10, read_u64_le(f, p))
      [] type_id = 11 -> Wrap(11, read_i64_le(f, p))
      [] type_id = 12 -> Wrap(12, read_f64_le(f, p))
      [] OTHER -> UnsupportedType(p, type_id)

(***************************************************************************)
(* parse_metadata: HashMap<String, String>, filled with value.to_string(). *)
(***************************************************************************)
EmptyTable == [k \in {} |-> <<>>]

\* an insert that keeps the entry a key already has
HashMapInsert_keepFirst(t, k, s) ==
    [x \in DOMAIN t \cup {k} |-> IF x \in DOMAIN t THEN t[x] ELSE s]

\* HashMap::insert: a later value for the same key replaces the earlier one
HashMapInsert(t, k, s) ==
    [x \in DOMAIN t \cup {k} |-> IF x = k THEN s ELSE t[x]]

\* what the table holds for a value: its Display string, a Rust String
Stored(x) == [repr |-> "String", text |-> to_string(x)]

RECURSIVE MetadataLoop(_, _, _, _, _)
MetadataLoop(f, p, left, table, log) ==
    IF left = 0 THEN Ok([table |-> table, log |-> log], p)
    ELSE LET key == read_gguf_str(f, p)
         IN  IF ~key.ok THEN key
             ELSE LET type_id == read_u32_le(f, key.pos)
                  IN  IF ~type_id.ok THEN type_id
                      ELSE LET value == parse_gguf_value(f, type_id.pos, type_id.val)
                           IN  IF ~value.ok THEN value
                               ELSE MetadataLoop(f, value.pos, left - 1,
                                        HashMapInsert(table, key.val, Stored(value.val)),
                                        Append(log, [key |-> key.val,
                                                     type_id |-> type_id.val,
                                                     value |-> value.val]))

parse_metadata(f, p, n_kv) == MetadataLoop(f, p, n_kv, EmptyTable, <<>>)

(***************************************************************************)
(* parse_gguf_header, after sections 4.2 and 6 (the source calls it and    *)
(* does not define it).  Magic, then version, then the 8-byte tensor-count *)
(* field.  For version >= 3 the metadata count is the next 8 bytes.  For   *)
(* an older version it is taken from the block already read: the upper     *)
(* four bytes of the count field, the tensor count being the lower four.   *)
(***************************************************************************)
Magic == <<71, 71, 85, 70>>

NoHeader == [magic |-> <<>>, version |-> 0, n_tensors |-> 0, n_kv |-> 0]

Header(m, v, t, k) == [magic |-> m, version |-> v, n_tensors |-> t, n_kv |-> k]

\* a decoder that takes the older layout for every version
parse_gguf_header_oldOnly(f) ==
    LET m == read_exact(f, 0, 4)
    IN  IF ~m.ok THEN Err("Truncated", m.pos)
        ELSE IF m.val # Magic THEN Err("BadMagic", m.pos)
        ELSE LET version == read_u32_le(f, m.pos)
                 count == read_exact(f, version.pos, 8)
             IN  IF ~version.ok THEN version
                 ELSE IF ~count.ok THEN Err("Truncated", count.pos)
                 ELSE Ok(Header(m.val, version.val,
                                ULE(SubSeq(count.val, 1, 4)),
                                ULE(SubSeq(count.val, 5, 8))), count.pos)

parse_gguf_header(f) ==
    LET m == read_exact(f, 0, 4)
    IN  IF ~m.ok THEN Err("Truncated", m.pos)
        ELSE IF m.val # Magic THEN Err("BadMagic", m.pos)
        ELSE LET version == read_u32_le(f, m.pos)
             IN  IF ~version.ok THEN version
                 ELSE LET count == read_exact(f, version.pos, 8)
                      IN  IF ~count.ok THEN Err("Truncated", count.pos)
                          ELSE IF version.val >= 3
                          THEN LET kv == read_u64_le(f, count.pos)
                               IN  IF ~kv.ok THEN kv
                                   ELSE Ok(Header(m.val, version.val,
                                                  ULE(count.val), kv.val), kv.pos)
                          ELSE Ok(Header(m.val, version.val,
                                         ULE(SubSeq(count.val, 1, 4)),
                                         ULE(SubSeq(count.val, 5, 8))), count.pos)

(***************************************************************************)
(* parse_tensors, after section 4.5 (the source calls it and does not      *)
(* define it): name, 4-byte dimension count, the dimensions, 4-byte        *)
(* storage type, 8-byte offset.  The fields are those gguf_info prints and *)
(* gguf_show reads.                                                        *)
(***************************************************************************)
RECURSIVE Dims(_, _, _, _)
Dims(f, p, left, ne) ==
    IF left = 0 THEN Ok(ne, p)
    ELSE LET d == read_u64_le(f, p)
         IN  IF ~d.ok THEN d ELSE Dims(f, d.pos, left - 1, Append(ne, d.val))

RECURSIVE TensorLoop(_, _, _, _)
TensorLoop(f, p, left, acc) ==
    IF left = 0 THEN Ok(acc, p)
    ELSE LET name == read_gguf_str(f, p)
         IN  IF ~name.ok THEN name
             ELSE LET n_dims == read_u32_le(f, name.pos)
                  IN  IF ~n_dims.ok THEN n_dims
                      ELSE LET ne == Dims(f, n_dims.pos, n_dims.val, <<>>)
                           IN  IF ~ne.ok THEN ne
                               ELSE LET type_id == read_u32_le(f, ne.pos)
                                        offset == read_u64_le(f, type_id.pos)
                                    IN  IF ~type_id.ok THEN type_id
                                        ELSE IF ~offset.ok THEN offset
                                        ELSE TensorLoop(f, offset.pos, left - 1,
                                                 Append(acc, [name |-> name.val,
                                                              n_dims |-> n_dims.val,
                                                              ne |-> ne.val,
                                                              type_id |-> type_id.val,
                                                              offset |-> offset.val]))

parse_tensors(f, p, n_tensors) == TensorLoop(f, p, n_tensors, <<>>)

(***************************************************************************)
(* int_to_ternary and the `f as i32` cast of gguf_show.                    *)
(***************************************************************************)
MaxI32 == 2147483647

MinI32 == -2147483647 - 1

RECURSIVE Pow2(_)
Pow2(k) == IF k = 0 THEN 1 ELSE 2 * Pow2(k - 1)

\* f32::from_le_bytes(b) as i32: truncation toward zero, saturating, NaN to 0
F32AsI32(b) ==
    LET negative == b[4] >= 128
        exp == (b[4] % 128) * 2 + (b[3] \div 128)
        mant == (b[3] % 128) * 65536 + b[2] * 256 + b[1]
        e == exp - 127
        sat == IF negative THEN MinI32 ELSE MaxI32
        mag == IF e <= 23 THEN (8388608 + mant) \div Pow2(23 - e)
                          ELSE (8388608 + mant) * Pow2(e - 23)
    IN  IF exp = 255 THEN (IF mant = 0 THEN sat ELSE 0)
        ELSE IF e < 0 THEN 0
        ELSE IF e >= 31 THEN sat
        ELSE IF negative THEN -mag ELSE mag

\* the digits pushed by the while loop, least significant first
RECURSIVE TernaryDigits(_)
TernaryDigits(num) ==
    IF num > 0
    THEN <<48 + (num % 3)>> \o CHOOSE d \in { TernaryDigits(q) : q \in { num \div 3 } } : TRUE
    ELSE <<>>

\* digits left in the order they were pushed
Reverse_none(s) == s

Reverse(s) == [i \in 1..Len(s) |-> s[Len(s) + 1 - i]]

\* i32::abs as the optimised build computes it: the minimum wraps to itself
I32Abs(n) == IF n = MinI32 THEN MinI32 ELSE IF n < 0 THEN -n ELSE n

int_to_ternary(n) ==
    IF n = 0 THEN <<48>>
    ELSE Reverse(TernaryDigits(I32Abs(n)) \o (IF n < 0 THEN <<45>> ELSE <<>>))

(***************************************************************************)
(* The files the sessions are run on.  A file is the encoding of a header, *)
(* metadata entries, tensor descriptors and tensor data, cut at some       *)
(* length.  `input` records what was encoded.                              *)
(***************************************************************************)
EncU32(n) == <<n % 256, (n \div 256) % 256, (n \div 65536) % 256, n \div 16777216>>

EncU64(n) == EncU32(n) \o <<0, 0, 0, 0>>

EncStr(str) == EncU64(Len(str)) \o str

Template(tag, bytes, kind, text, depth) ==
    [tag |-> tag, bytes |-> bytes, kind |-> kind, text |-> text, depth |-> depth]

\* an array nested d deep around the u8 1: [[1]] for d = 2
RECURSIVE NestBytes(_)
NestBytes(d) ==
    IF d = 1 THEN EncU32(0) \o EncU64(1) \o <<1>>
    ELSE EncU32(9) \o EncU64(1) \o NestBytes(d - 1)

RECURSIVE NestText(_)
NestText(d) == IF d = 0 THEN <<49>> ELSE <<91>> \o NestText(d - 1) \o <<93>>

\* one value of every kind, with the Display text it is expected to have
ScalarTemplates ==
    { Template(0, <<7>>, "Uint8", <<55>>, 0),
      Template(1, <<255>>, "Int8", <<45, 49>>, 0),
      Template(2, <<44, 1>>, "Uint16", <<51, 48, 48>>, 0),
      Template(3, <<254, 255>>, "Int16", <<45, 50>>, 0),
      Template(4, <<0, 0, 1, 0>>, "Uint32", <<54, 53, 53, 51, 54>>, 0),
      Template(5, <<253, 255, 255, 255>>, "Int32", <<45, 51>>, 0),
      Template(6, <<0, 0, 0, 63>>, "Float32", <<48, 46, 53>>, 0),
      Template(7, <<1>>, "Bool", <<116, 114, 117, 101>>, 0),
      Template(8, EncStr(<<55>>), "String", <<55>>, 0),
      Template(10, EncU64(5), "Uint64", <<53>>, 0),
      Template(11, <<252, 255, 255, 255, 255, 255, 255, 255>>, "Int64", <<45, 52>>, 0),
      Template(12, <<0, 0, 0, 0, 0, 0, 0, 64>>, "Float64", <<50>>, 0) }

ArrayTemplates ==
    { Template(9, EncU32(0) \o EncU64(2) \o <<1, 2>>, "Array",
               <<91, 49, 44, 32, 50, 93>>, 1) }
    \cup { Template(9, NestBytes(d), "Array", NestText(d), d) : d \in 2..MaxNest }

\* a type tag no arm of parse_gguf_value names; it has no value bytes
UnknownTemplates == { Template(255, <<>>, "Unknown", <<>>, 0) }

Templates == ScalarTemplates \cup ArrayTemplates \cup UnknownTemplates

\* the templates that files of several entries are made of
FewTemplates ==
    { t \in Templates :
        \/ t.kind \in {"Uint8", "String", "Unknown"}
        \/ t.kind = "Array" /\ t.depth \in {1, MaxNest} }

\* no entry, one entry of any template, or up to n entries of the few
EntrySeqs(n) ==
    { <<t>> : t \in { x \in Templates : n >= 1 } }
    \cup UNION { [1..k -> FewTemplates] : k \in {0} \cup 2..n }

\* the key of the i-th entry: all "a", or "a", "b", "c", ...
KeyOf(mode, i) == IF mode = "same" THEN <<97>> ELSE <<96 + i>>

RECURSIVE MetaBytes(_, _, _)
MetaBytes(mode, entries, i) ==
    IF i > Len(entries) THEN <<>>
    ELSE EncStr(KeyOf(mode, i)) \o EncU32(entries[i].tag) \o entries[i].bytes
         \o MetaBytes(mode, entries, i + 1)

RECURSIVE DimBytes(_, _)
DimBytes(ne, i) == IF i > Len(ne) THEN <<>> ELSE EncU64(ne[i]) \o DimBytes(ne, i + 1)

RECURSIVE TensorBytes(_, _)
TensorBytes(tens, i) ==
    IF i > Len(tens) THEN <<>>
    ELSE EncStr(tens[i].name) \o EncU32(Len(tens[i].ne)) \o DimBytes(tens[i].ne, 1)
         \o EncU32(tens[i].type_id) \o EncU64(tens[i].offset)
         \o TensorBytes(tens, i + 1)

\* the float32 encoding of the integer n >= 1
FloatBytes(n) ==
    LET e == CHOOSE k \in 0..23 : Pow2(k) <= n /\ n < Pow2(k + 1)
        mant == (n - Pow2(e)) * Pow2(23 - e)
        exp == 127 + e
    IN  <<mant % 256, (mant \div 256) % 256,
          (exp % 2) * 128 + (mant \div 65536), exp \div 2>>

\* the floats 1.0, 2.0, ..., k
RECURSIVE DataBytes(_)
DataBytes(k) == IF k = 0 THEN <<>> ELSE DataBytes(k - 1) \o FloatBytes(k)

HeaderBytes(magic, version, nt, nkv) ==
    magic \o EncU32(version)
    \o (IF version >= 3 THEN EncU64(nt) \o EncU64(nkv) ELSE EncU32(nt) \o EncU32(nkv))

HeaderLen(version) == IF version >= 3 THEN 24 ELSE 16

Build(in) ==
    HeaderBytes(in.magic, in.version, in.n_tensors, in.n_kv)
    \o MetaBytes(in.mode, in.entries, 1) \o TensorBytes(in.tens, 1)
    \o DataBytes(in.floats) \o in.extra

Input(family, magic, version, nt, nkv, mode, entries, tens, floats, extra, o, name) ==
    [family |-> family, magic |-> magic, version |-> version, n_tensors |-> nt,
     n_kv |-> nkv, mode |-> mode, entries |-> entries, tens |-> tens,
     floats |-> floats, extra |-> extra, cut |-> 0, op |-> o, target |-> name]

Whole(in) == [in EXCEPT !.cut = Len(Build(in))]

Cuts(in) == { [in EXCEPT !.cut = c] : c \in 0..Len(Build(in)) }

\* whole files with up to MaxEntries entries; the header may declare one less
MetaInputs ==
    UNION { { Whole(Input("meta", Magic, 3, 0, n_kv, mode, es, <<>>, 0, <<>>,
                          "info", <<>>)) :
                mode \in {"same", "distinct"},
                n_kv \in { n \in {Len(es) - 1, Len(es)} : n >= 0 } } :
            es \in EntrySeqs(MaxEntries) }

\* files with up to MaxTruncEntries entries, cut at every length
TruncInputs ==
    UNION { Cuts(Input("trunc", Magic, 3, 0, Len(es), "distinct", es, <<>>, 0, <<>>,
                       "info", <<>>)) :
              es \in EntrySeqs(MaxTruncEntries) }

BadMagics == { <<71, 71, 85, 71>>, <<70, 71, 85, 70>>, <<0, 0, 0, 0>> }

Versions == {0, 1, 2, 3, 4, 77}

Tails == { <<>>, <<0>>, <<200, 0, 0, 0, 0, 0, 0, 0, 9>> }

\* headers of every version and count, good and bad magic, whole and cut
HeaderInputs ==
    LET hs == { Input("header", m, v, nt, 0, "distinct", <<>>, <<>>, 0, tail, o, <<119>>) :
                  m \in {Magic} \cup BadMagics, v \in Versions, nt \in 0..1,
                  tail \in Tails, o \in {"info", "show"} }
        ks == { Input("header", Magic, v, nt, nkv, "distinct", <<>>, <<>>, 0, tail,
                      "info", <<119>>) :
                  v \in Versions, nt \in 0..1, nkv \in 1..2, tail \in Tails }
    IN  { Whole(h) : h \in hs \cup ks }
        \cup UNION { Cuts(h) : h \in { x \in hs : x.extra = <<>> /\ x.op = "info" } }

Tensor(name, ne, type_id, offset) ==
    [name |-> name, ne |-> ne, type_id |-> type_id, offset |-> offset]

\* where the first offset points: the start of the file, the start of the
\* tensor data, or past the end of the file
OffsetOf(where, ts) ==
    CASE where = "zero" -> 0
      [] where = "data" -> HeaderLen(3) + Len(TensorBytes(ts, 1))
      [] where = "far" -> 200

\* descriptors of float32 (6) and other storage types
Shapes ==
    { Tensor(<<119>>, ne, ty, 0) :
        ne \in { <<>>, <<2>>, <<6>>, <<2, 3>>, <<0>> }, ty \in {0, 2, 6} }

ShapeLists ==
    { <<t>> : t \in Shapes }
    \cup { <<Tensor(<<118>>, <<3>>, 6, 0), t>> : t \in Shapes }
    \cup { <<t, Tensor(<<119>>, <<1>>, 6, 4)>> : t \in Shapes }

\* the descriptor named "w" that comes first gets the offset
Place(ts, where) ==
    LET i == CHOOSE j \in 1..Len(ts) : ts[j].name = <<119>> /\ \A k \in 1..(j - 1) : ts[k].name # <<119>>
    IN  [ts EXCEPT ![i].offset = OffsetOf(where, ts)]

TensorLists ==
    { Place(ts, where) : ts \in ShapeLists, where \in {"zero", "data", "far"} }

\* a packed-nibble block: the scale 2.0 and the codes 8, 8 in one byte
NibbleBlock == <<0, 0, 0, 64, 136>>

\* files with tensor descriptors, 0..MaxFloats floats of data and a tail
TensorInputs ==
    { Whole(Input("tensor", Magic, 3, Len(ts), 0, "distinct", <<>>, ts, k, extra,
                  o, name)) :
        ts \in TensorLists, k \in 0..MaxFloats, extra \in { <<>>, <<1, 2>>, NibbleBlock },
        o \in {"show"}, name \in { <<119>>, <<122>> } }
    \cup { Whole(Input("tensor", Magic, 3, Len(ts), 0, "distinct", <<>>, ts, 1, <<>>,
                       "info", <<>>)) : ts \in TensorLists }

Inputs == MetaInputs \cup TruncInputs \cup HeaderInputs \cup TensorInputs

\* no calculator run
NoTerm == [family |-> "none", tree |-> <<>>, tail |-> <<>>]

NoResult == [kind |-> "None", val |-> 0, pos |-> 0, err |-> "", ch |-> 0]

(***************************************************************************)
(* The sessions: gguf_info and gguf_show, one action per stage.  A stage   *)
(* that returns Err ends the process (process::exit(1)).                   *)
(***************************************************************************)
Init ==
    \E in \in Inputs :
        /\ input = in
        /\ file = SubSeq(Build(in), 1, in.cut)
        /\ op = in.op
        /\ target = in.target
        /\ pos = 0
        /\ stage = "Start"
        /\ ran = "none"
        /\ header = NoHeader
        /\ metadata = EmptyTable
        /\ decoded = <<>>
        /\ tensors = <<>>
        /\ preview = <<>>
        /\ error = NoError
        /\ expr = <<>>
        /\ built = NoTerm
        /\ overflow_checks = FALSE
        /\ result = NoResult
        /\ printed = <<>>
        /\ step = "Idle"

\* unwrap_or_else(|e| { eprintln!(...); process::exit(1) })
Exit(r) ==
    /\ stage' = "Failed"
    /\ error' = [kind |-> r.err, tag |-> r.tag]
    /\ pos' = r.pos

\* a header stage that goes on after an error
DecodeHeader_goOn ==
    /\ stage = "Start"
    /\ ran' = "header"
    /\ LET r == parse_gguf_header(file)
       IN  /\ stage' = "HeaderDecoded"
           /\ pos' = r.pos
           /\ header' = IF r.ok THEN r.val ELSE NoHeader
           /\ UNCHANGED error
    /\ UNCHANGED <<file, input, op, target, metadata, decoded, tensors, preview>>
    /\ UNCHANGED calc

\* let header = parse_gguf_header(file).unwrap_or_else(...)
DecodeHeader ==
    /\ stage = "Start"
    /\ ran' = "header"
    /\ LET r == parse_gguf_header(file)
       IN  IF r.ok
           THEN /\ stage' = "HeaderDecoded"
                /\ header' = r.val
                /\ pos' = r.pos
                /\ UNCHANGED error
           ELSE /\ Exit(r)
                /\ UNCHANGED header
    /\ UNCHANGED <<file, input, op, target, metadata, decoded, tensors, preview>>
    /\ UNCHANGED calc

\* a metadata stage that goes on after an error
DecodeMetadata_goOn ==
    /\ stage = "HeaderDecoded"
    /\ ran' = "metadata"
    /\ LET r == parse_metadata(file, pos, header.n_kv)
       IN  /\ stage' = "MetadataDecoded"
           /\ pos' = r.pos
           /\ metadata' = IF r.ok THEN r.val.table ELSE EmptyTable
           /\ decoded' = IF r.ok THEN r.val.log ELSE <<>>
           /\ UNCHANGED error
    /\ UNCHANGED <<file, input, op, target, header, tensors, preview>>
    /\ UNCHANGED calc

\* let metadata = parse_metadata(file, header.n_kv).unwrap_or_else(...)
DecodeMetadata ==
    /\ stage = "HeaderDecoded"
    /\ ran' = "metadata"
    /\ LET r == parse_metadata(file, pos, header.n_kv)
       IN  IF r.ok
           THEN /\ stage' = "MetadataDecoded"
                /\ metadata' = r.val.table
                /\ decoded' = r.val.log
                /\ pos' = r.pos
                /\ UNCHANGED error
           ELSE /\ Exit(r)
                /\ UNCHANGED <<metadata, decoded>>
    /\ UNCHANGED <<file, input, op, target, header, tensors, preview>>
    /\ UNCHANGED calc

\* let tensors = parse_tensors(file, header.n_tensors).unwrap_or_else(...)
DecodeTensors ==
    /\ stage = "MetadataDecoded"
    /\ ran' = "tensors"
    /\ LET r == parse_tensors(file, pos, header.n_tensors)
       IN  IF r.ok
           THEN /\ stage' = "TensorsDecoded"
                /\ tensors' = r.val
                /\ pos' = r.pos
                /\ UNCHANGED error
           ELSE /\ Exit(r)
                /\ UNCHANGED tensors
    /\ UNCHANGED <<file, input, op, target, header, metadata, decoded, preview>>
    /\ UNCHANGED calc

\* gguf_info: for tensor in tensors { println!(...) }
PrintTensors ==
    /\ stage = "TensorsDecoded"
    /\ ran' = "print"
    /\ op = "info"
    /\ stage' = "Ready"
    /\ UNCHANGED <<file, input, op, target, pos, header, metadata, decoded,
                   tensors, preview, error>>
    /\ UNCHANGED calc

(***************************************************************************)
(* gguf_show after the decode stages: find the tensor, seek to its offset, *)
(* refuse every storage type but 6, read min(4 * elements, 20 * 4) bytes   *)
(* and print the first five floats, cast to i32, in ternary.               *)
(***************************************************************************)
\* tensor.type_id != 6
Float32Type == 6

\* vec![0u8; size as usize.min(20 * 4)]
ReadLimitValues == 20

\* for i in 0..5.min(data.len() / 4)
PrintLimit == 5

RECURSIVE Product(_)
Product(ne) == IF ne = <<>> THEN 1 ELSE Head(ne) * Product(Tail(ne))

\* tensors.iter().find(|t| t.name == tensor_name): the first match, 0 if none
Find(ts, name) ==
    IF \E i \in 1..Len(ts) : ts[i].name = name
    THEN CHOOSE i \in 1..Len(ts) :
            ts[i].name = name /\ \A j \in 1..(i - 1) : ts[j].name # name
    ELSE 0

Shown(data) ==
    [i \in 1..Min(PrintLimit, Len(data) \div 4) |->
        [kind |-> "ternary",
         text |-> int_to_ternary(F32AsI32(SubSeq(data, 4 * i - 3, 4 * i)))]]

\* the read and the print loop
ReadAndShow(f, t) ==
    LET size == Product(t.ne) * 4
        data == read_exact(f, t.offset, Min(size, ReadLimitValues * 4))
    IN  IF ~data.ok THEN Err("ReadData", data.pos)
        ELSE Ok(Shown(data.val), data.pos)

\* a preview that decodes every storage type as float32
show_tensor_anyType(f, p, ts, name) ==
    LET i == Find(ts, name)
    IN  IF i = 0 THEN Err("TensorNotFound", p) ELSE ReadAndShow(f, ts[i])

show_tensor(f, p, ts, name) ==
    LET i == Find(ts, name)
    IN  IF i = 0 THEN Err("TensorNotFound", p)
        ELSE IF ts[i].type_id # Float32Type
        THEN ErrTag("UnsupportedStorage", ts[i].offset, ts[i].type_id)
        ELSE ReadAndShow(f, ts[i])

ShowTensor ==
    /\ stage = "TensorsDecoded"
    /\ ran' = "show"
    /\ op = "show"
    /\ LET r == show_tensor(file, pos, tensors, target)
       IN  IF r.ok
           THEN /\ stage' = "Ready"
                /\ preview' = r.val
                /\ pos' = r.pos
                /\ UNCHANGED error
           ELSE /\ Exit(r)
                /\ UNCHANGED preview
    /\ UNCHANGED <<file, input, op, target, header, metadata, decoded, tensors>>
    /\ UNCHANGED calc

Next ==
    \/ DecodeHeader
    \/ DecodeMetadata
    \/ DecodeTensors
    \/ PrintTensors
    \/ ShowTensor

Spec == Init /\ [][Next]_vars

(***************************************************************************)
(* The calculator: tritjs_eval_expression, a recursive-descent evaluator   *)
(* over i32, and the printing of its result by int_to_ternary.             *)
(*                                                                         *)
(* i32 arithmetic.  `+=`, `-=`, `*=` and `value * 3 + d` trap on overflow  *)
(* when the build has overflow checks (the debug profile) and wrap modulo  *)
(* 2^32 when it has not (the release profile); `/=` traps in every build   *)
(* when the quotient does not fit.  No intermediate value of the           *)
(* operators below leaves the 32-bit range.                                *)
(***************************************************************************)
\* the two's complement bytes of an i32, least significant first
I32Bytes(n) ==
    IF n >= 0 THEN EncU32(n)
    ELSE [EncU32((n + MaxI32) + 1) EXCEPT ![4] = @ + 128]

Magnitude(n) == IF n < 0 THEN -n ELSE n

AddOverflows(a, b) == IF b >= 0 THEN a > MaxI32 - b ELSE a < MinI32 - b

wrapping_add(a, b) ==
    IF ~AddOverflows(a, b) THEN a + b
    ELSE IF b >= 0 THEN ((a - MaxI32) - 1) + ((b - MaxI32) - 1)
    ELSE ((a + MaxI32) + 1) + ((b + MaxI32) + 1)

SubOverflows(a, b) == IF b >= 0 THEN a < MinI32 + b ELSE a > MaxI32 + b

wrapping_sub(a, b) ==
    IF ~SubOverflows(a, b) THEN a - b
    ELSE IF b >= 0 THEN ((a + MaxI32) + 1) - ((b - MaxI32) - 1)
    ELSE ((a - MaxI32) - 1) - ((b + MaxI32) + 1)

\* the exact product is outside [-2^31, 2^31 - 1]
MulOverflows(a, b) ==
    IF a = 0 \/ b = 0 THEN FALSE
    ELSE IF a = MinI32 THEN b # 1
    ELSE IF b = MinI32 THEN a # 1
    ELSE LET x == Magnitude(a)
             y == Magnitude(b)
             beyondMax == x > MaxI32 \div y
             isTwoTo31 == x = (MaxI32 \div y) + 1 /\ MaxI32 % y = y - 1
         IN  IF (a < 0) = (b < 0) THEN beyondMax ELSE beyondMax /\ ~isTwoTo31

\* the low 32 bits of the product, by bytes
wrapping_mul(a, b) ==
    LET x == I32Bytes(a)
        y == I32Bytes(b)
        c1 == x[1] * y[1]
        c2 == x[1] * y[2] + x[2] * y[1] + (c1 \div 256)
        c3 == x[1] * y[3] + x[2] * y[2] + x[3] * y[1] + (c2 \div 256)
        c4 == x[1] * y[4] + x[2] * y[3] + x[3] * y[2] + x[4] * y[1] + (c3 \div 256)
    IN  SLE(<<c1 % 256, c2 % 256, c3 % 256, c4 % 256>>)

\* i32::MIN / -1
DivOverflows(a, b) == a = MinI32 /\ b = -1

\* a / b for b # 0 and a quotient that fits: truncation toward zero
TruncDiv(a, b) ==
    IF b = MinI32 THEN (IF a = MinI32 THEN 1 ELSE 0)
    ELSE IF a = MinI32
    THEN IF b = 1 THEN MinI32
         ELSE LET y == Magnitude(b)
                  q == (((MaxI32 - y) + 1) \div y) + 1
              IN  IF b > 0 THEN -q ELSE q
    ELSE LET q == Magnitude(a) \div Magnitude(b)
         IN  IF (a < 0) = (b < 0) THEN q ELSE -q

\* the outcome of one arithmetic step: a trap, or the value stored
Step(trap, v) == [panic |-> trap, val |-> v]

AddAssign(a, b) == Step(overflow_checks /\ AddOverflows(a, b), wrapping_add(a, b))

SubAssign(a, b) == Step(overflow_checks /\ SubOverflows(a, b), wrapping_sub(a, b))

MulAssign(a, b) == Step(overflow_checks /\ MulOverflows(a, b), wrapping_mul(a, b))

DivAssign(a, b) ==
    Step(DivOverflows(a, b), IF DivOverflows(a, b) THEN 0 ELSE TruncDiv(a, b))

(***************************************************************************)
(* The parser.  chars is the trimmed input, pos the 0-based index of the   *)
(* next character.  A function returns Ok(value) with the index it        *)
(* stopped at, Err(ParseError), or does not return (a panic).              *)
(***************************************************************************)
ParseOk(v, p) == [kind |-> "Ok", val |-> v, pos |-> p, err |-> "", ch |-> 0]

\* ch: the character the error carries, 0 for '\0' and for errors without one
ParseErr(e, c, p) == [kind |-> "Err", val |-> 0, pos |-> p, err |-> e, ch |-> c]

Panic(why, p) == [kind |-> "Panic", val |-> 0, pos |-> p, err |-> why, ch |-> 0]

\* char::is_whitespace, for the characters of the inputs: space and tab
IsWhitespace(c) == c \in {32, 9}

RECURSIVE skip_whitespace(_, _)
skip_whitespace(chars, p) ==
    IF p < Len(chars) /\ IsWhitespace(chars[p + 1])
    THEN skip_whitespace(chars, p + 1)
    ELSE p

\* the one element of a singleton.  In Only({ F(x) : x \in {e} }) the
\* value of e is computed once and named x, as a `let` binding does
Only(S) == CHOOSE x \in S : TRUE

\* value * 3 + digit
MulAdd(value, k, d) ==
    LET m == MulAssign(value, k)
    IN  Step(m.panic \/ AddAssign(m.val, d).panic, AddAssign(m.val, d).val)

\* the while loop of parse_number and the checks after it
RECURSIVE NumberLoop(_, _, _, _)
NumberLoop(chars, p, value, has_digits) ==
    IF p < Len(chars) /\ chars[p + 1] >= 48 /\ chars[p + 1] <= 50
    THEN Only({ IF a.panic THEN Panic("overflow", p)
                ELSE NumberLoop(chars, p + 1, a.val, TRUE) :
                a \in { MulAdd(value, 3, chars[p + 1] - 48) } })
    ELSE IF ~has_digits THEN ParseErr("InvalidDigit", chars[p + 1], p)
    ELSE ParseOk(value, p)

parse_number(chars, pos0) ==
    Only({ IF p >= Len(chars) THEN ParseErr("UnexpectedChar", 0, p)
           ELSE NumberLoop(chars, p, 0, FALSE) :
           p \in { skip_whitespace(chars, pos0) } })

RECURSIVE parse_expr(_, _)
RECURSIVE ExprLoop(_, _, _)
RECURSIVE parse_term(_, _)
RECURSIVE TermLoop(_, _, _)
RECURSIVE parse_factor(_, _)

\* skip_whitespace and the test for ')' after a parenthesized expression
CloseParen(chars, e) ==
    Only({ IF q >= Len(chars) \/ chars[q + 1] # 41
           THEN ParseErr("MissingClosingParen", 0, q)
           ELSE ParseOk(e.val, q + 1) :
           q \in { skip_whitespace(chars, e.pos) } })

parse_factor(chars, pos0) ==
    Only({ IF p >= Len(chars) THEN ParseErr("UnexpectedChar", 0, p)
           ELSE IF chars[p + 1] = 40
           THEN Only({ IF e.kind # "Ok" THEN e ELSE CloseParen(chars, e) :
                       e \in { parse_expr(chars, p + 1) } })
           ELSE parse_number(chars, p) :
           p \in { skip_whitespace(chars, pos0) } })

\* value *= f
Multiplied(chars, value, f) ==
    IF f.kind # "Ok" THEN f
    ELSE Only({ IF m.panic THEN Panic("overflow", f.pos)
                ELSE TermLoop(chars, f.pos, m.val) :
                m \in { MulAssign(value, f.val) } })

\* if next == 0 { return Err(DivisionByZero) }; value /= next
Divided(chars, value, f) ==
    IF f.kind # "Ok" THEN f
    ELSE IF f.val = 0 THEN ParseErr("DivisionByZero", 0, f.pos)
    ELSE Only({ IF d.panic THEN Panic("overflow", f.pos)
                ELSE TermLoop(chars, f.pos, d.val) :
                d \in { DivAssign(value, f.val) } })

\* the while loop of parse_term
TermLoop(chars, pos0, value) ==
    IF pos0 >= Len(chars) THEN ParseOk(value, pos0)
    ELSE Only({ IF p < Len(chars) /\ chars[p + 1] = 42
                THEN Only({ Multiplied(chars, value, f) :
                            f \in { parse_factor(chars, p + 1) } })
                ELSE IF p < Len(chars) /\ chars[p + 1] = 47
                THEN Only({ Divided(chars, value, f) :
                            f \in { parse_factor(chars, p + 1) } })
                ELSE ParseOk(value, p) :
                p \in { skip_whitespace(chars, pos0) } })

parse_term(chars, pos0) ==
    Only({ IF f.kind # "Ok" THEN f ELSE TermLoop(chars, f.pos, f.val) :
           f \in { parse_factor(chars, pos0) } })

\* value += t
Added(chars, value, t) ==
    IF t.kind # "Ok" THEN t
    ELSE Only({ IF a.panic THEN Panic("overflow", t.pos)
                ELSE ExprLoop(chars, t.pos, a.val) :
                a \in { AddAssign(value, t.val) } })

\* value -= t
Subtracted(chars, value, t) ==
    IF t.kind # "Ok" THEN t
    ELSE Only({ IF a.panic THEN Panic("overflow", t.pos)
                ELSE ExprLoop(chars, t.pos, a.val) :
                a \in { SubAssign(value, t.val) } })

\* the while loop of parse_expr
ExprLoop(chars, pos0, value) ==
    IF pos0 >= Len(chars) THEN ParseOk(value, pos0)
    ELSE Only({ IF p < Len(chars) /\ chars[p + 1] = 43
                THEN Only({ Added(chars, value, t) :
                            t \in { parse_term(chars, p + 1) } })
                ELSE IF p < Len(chars) /\ chars[p + 1] = 45
                THEN Only({ Subtracted(chars, value, t) :
                            t \in { parse_term(chars, p + 1) } })
                ELSE ParseOk(value, p) :
                p \in { skip_whitespace(chars, pos0) } })

parse_expr(chars, pos0) ==
    Only({ IF t.kind # "Ok" THEN t ELSE ExprLoop(chars, t.pos, t.val) :
           t \in { parse_term(chars, pos0) } })

\* str::trim
RECURSIVE TrimEnd(_)
TrimEnd(s) ==
    IF s # <<>> /\ IsWhitespace(s[Len(s)]) THEN TrimEnd(SubSeq(s, 1, Len(s) - 1)) ELSE s

Trim(s) == LET p == skip_whitespace(s, 0) IN TrimEnd(SubSeq(s, p + 1, Len(s)))

\* the loop after parse_expr: the first character left that is not whitespace
TrailingCheck(chars, r) ==
    LET p == skip_whitespace(chars, r.pos)
    IN  IF p < Len(chars) THEN ParseErr("UnexpectedChar", chars[p + 1], p)
        ELSE ParseOk(r.val, p)

\* parse_expr on the characters, then the loop over the characters left
EvalChars(chars) ==
    Only({ IF r.kind # "Ok" THEN r ELSE TrailingCheck(chars, r) :
           r \in { parse_expr(chars, 0) } })

\* an evaluator that returns the value of the expression it could read
tritjs_eval_expression_prefix(expression) ==
    Only({ IF chars = <<>> THEN ParseErr("EmptyExpression", 0, 0)
           ELSE parse_expr(chars, 0) :
           chars \in { Trim(expression) } })

tritjs_eval_expression(expression) ==
    Only({ IF chars = <<>> THEN ParseErr("EmptyExpression", 0, 0)
           ELSE EvalChars(chars) :
           chars \in { Trim(expression) } })

(***************************************************************************)
(* The expressions the calculator is run on: every short string over the  *)
(* calculator's characters, the renderings of small expression trees, and  *)
(* expressions at the ends of the i32 range.  `built` records what was     *)
(* rendered.                                                               *)
(***************************************************************************)
\* the longest string of the "every string" family
MaxLen == 3

\* the most operators in an expression tree
MaxOps == 2

\* 0 1 2 3 + - * / ( ) and the space
Alphabet == {48, 49, 50, 51, 43, 45, 42, 47, 40, 41, 32}

RECURSIVE Strings(_)
Strings(k) ==
    IF k = 0 THEN { <<>> }
    ELSE LET shorter == Strings(k - 1)
         IN  shorter \cup { Append(x, c) : x \in { y \in shorter : Len(y) = k - 1 },
                                           c \in Alphabet }

\* an expression tree in prefix order: an operator's character followed by
\* its two operands, or the value of a literal
Operators == {43, 45, 42, 47}

\* the literals 0, 2 and 21 (seven)
Literals == { [val |-> 0, digits |-> <<48>>], [val |-> 2, digits |-> <<50>>],
              [val |-> 7, digits |-> <<50, 49>>] }

RECURSIVE Trees(_)
Trees(k) ==
    IF k = 0 THEN { <<l.val>> : l \in Literals }
    ELSE UNION { { <<o>> \o a \o b : o \in Operators, a \in Trees(i), b \in Trees(k - 1 - i) } :
                 i \in 0..(k - 1) }

TreesUpTo(k) == UNION { Trees(i) : i \in 0..k }

Precedence(o) == IF o \in {42, 47} THEN 2 ELSE 1

\* the tree as text, with the parentheses its shape needs and no others
RECURSIVE Render(_, _)
Render(t, sp) ==
    IF Head(t) \notin Operators
    THEN [txt |-> (CHOOSE l \in Literals : l.val = Head(t)).digits, rest |-> Tail(t),
          prec |-> 3]
    ELSE LET o == Head(t)
             a == Render(Tail(t), sp)
             b == Render(a.rest, sp)
             l == IF a.prec < Precedence(o) THEN <<40>> \o a.txt \o <<41>> ELSE a.txt
             r == IF b.prec <= Precedence(o) THEN <<40>> \o b.txt \o <<41>> ELSE b.txt
         IN  [txt |-> l \o sp \o <<o>> \o sp \o r, rest |-> b.rest,
              prec |-> Precedence(o)]

\* what may follow a complete expression without continuing it
JunkTails == { <<51>>, <<41>>, <<40>>, <<32, 49>>, <<32, 41, 43, 49>>, <<9, 51, 32>> }

Built(family, tree, tail, from) ==
    [family |-> family, tree |-> tree, tail |-> tail, from |-> from]

\* 12112122212110202101, the ternary digits of 2^31 - 1
MaxText == <<49, 50, 49, 49, 50, 49, 50, 50, 50, 49, 50, 49, 49, 48, 50, 48, 50, 49, 48, 49>>

\* 0-12112122212110202101-1, which evaluates to -2^31
MinText == <<48, 45>> \o MaxText \o <<45, 49>>

Extremes ==
    { MaxText, <<48, 45>> \o MaxText, MinText,
      MaxText \o <<43, 49>>, MaxText \o <<42, 50>>, MaxText \o <<42>> \o MaxText,
      MinText \o <<45, 49>>, MaxText \o <<48>>, <<49>> \o [i \in 1..20 |-> 48],
      <<40>> \o MinText \o <<41, 47, 40, 48, 45, 49, 41>>,
      <<40>> \o MinText \o <<41, 42, 40, 48, 45, 49, 41>>,
      <<40>> \o MinText \o <<41, 47, 50>>, <<40>> \o MinText \o <<41, 47, 49>>,
      <<40>> \o MinText \o <<41, 47, 40>> \o MinText \o <<41>>,
      <<49, 47, 40>> \o MinText \o <<41>>, MaxText \o <<47, 40, 48, 45, 49, 41>>,
      <<40, 48, 45>> \o MaxText \o <<41, 42, 50>>, MaxText \o <<47, 50>>,
      <<48, 45>> \o MaxText \o <<43, 49>> }

(***************************************************************************)
(* A calculator run: the expression is evaluated and, if it has a value,   *)
(* the value is printed in ternary; the printed string may be entered as   *)
(* the next expression.                                                    *)
(***************************************************************************)
NoInput == Input("none", <<>>, 0, 0, 0, "distinct", <<>>, <<>>, 0, <<>>, "calc", <<>>)

NoFile ==
    /\ file = <<>>
    /\ input = NoInput
    /\ op = "calc"
    /\ target = <<>>
    /\ pos = 0
    /\ stage = "Idle"
    /\ ran = "none"
    /\ header = NoHeader
    /\ metadata = EmptyTable
    /\ decoded = <<>>
    /\ tensors = <<>>
    /\ preview = <<>>
    /\ error = NoError

gguf == <<file, input, op, target, pos, stage, ran, header, metadata, decoded,
          tensors, preview, error>>

CalcInit ==
    /\ NoFile
    /\ \/ \E s \in Strings(MaxLen) :
             /\ expr = s
             /\ built = Built("string", <<>>, <<>>, 0)
       \/ \E t \in TreesUpTo(MaxOps) :
             /\ expr = Render(t, <<>>).txt
             /\ built = Built("tree", t, <<>>, 0)
       \/ \E t \in TreesUpTo(MaxOps - 1) :
             /\ expr = Render(t, <<32>>).txt
             /\ built = Built("tree", t, <<>>, 0)
       \/ \E t \in TreesUpTo(MaxOps - 1), tail \in JunkTails :
             /\ expr = Render(t, <<>>).txt \o tail
             /\ built = Built("tree", t, tail, 0)
       \/ \E s \in Extremes :
             /\ expr = s
             /\ built = Built("extreme", <<>>, <<>>, 0)
    /\ overflow_checks \in BOOLEAN
    /\ result = NoResult
    /\ printed = <<>>
    /\ step = "Entered"

\* match tritjs_eval_expression(&input_expr): an Err ends the process
Evaluate ==
    /\ step = "Entered"
    /\ result' = tritjs_eval_expression(expr)
    /\ step' = CASE result'.kind = "Ok" -> "Evaluated"
                 [] result'.kind = "Err" -> "Failed"
                 [] result'.kind = "Panic" -> "Aborted"
    /\ UNCHANGED <<expr, built, overflow_checks, printed>>
    /\ UNCHANGED gguf

\* let ternary_result = int_to_ternary(result); println!(...).  n.abs() traps
\* on i32::MIN when the build has overflow checks
PrintResult ==
    /\ step = "Evaluated"
    /\ IF overflow_checks /\ result.val = MinI32
       THEN /\ step' = "Aborted"
            /\ UNCHANGED printed
       ELSE /\ step' = "Printed"
            /\ printed' = int_to_ternary(result.val)
    /\ UNCHANGED <<expr, built, overflow_checks, result>>
    /\ UNCHANGED gguf

\* the printed string is given to the calculator as its next expression
Reenter ==
    /\ step = "Printed"
    /\ expr' = printed
    /\ built' = Built("printed", <<>>, <<>>, result.val)
    /\ result' = NoResult
    /\ printed' = <<>>
    /\ step' = "Entered"
    /\ UNCHANGED overflow_checks
    /\ UNCHANGED gguf

CalcNext ==
    \/ Evaluate
    \/ PrintResult
    \/ Reenter

CalcSpec == CalcInit /\ [][CalcNext]_vars

(***************************************************************************)
(* What the input encodes, for stating the properties.                     *)
(***************************************************************************)
WholeFile == input.cut = Len(Build(input))

MetaFamily == input.family \in {"meta", "trunc"}

\* the entries the header counts
Declared == SubSeq(input.entries, 1, input.n_kv)

Unknown(t) == t.kind = "Unknown"

\* the offset just past the n-th entry
EntryEnd(n) ==
    HeaderLen(input.version) + Len(MetaBytes(input.mode, SubSeq(input.entries, 1, n), 1))

\* the metadata stage has just run on a whole file of recognised tags
WellFormedMetadata ==
    /\ ran = "metadata"
    /\ MetaFamily
    /\ WholeFile
    /\ \A i \in 1..input.n_kv : ~Unknown(input.entries[i])

\* the metadata stage has just run on a whole file with an unrecognised tag
HasUnknownTag ==
    /\ ran = "metadata"
    /\ MetaFamily
    /\ WholeFile
    /\ \E i \in 1..input.n_kv : Unknown(input.entries[i])

FirstUnknown ==
    CHOOSE i \in 1..input.n_kv :
        Unknown(input.entries[i]) /\ \A j \in 1..(i - 1) : ~Unknown(input.entries[j])

CutInsideMetadata ==
    /\ ran = "metadata"
    /\ input.family = "trunc"
    /\ input.cut >= HeaderLen(input.version)
    /\ input.cut < EntryEnd(input.n_kv)
    /\ \A i \in 1..input.n_kv : ~Unknown(input.entries[i])

C2_TruncationAborts ==
    CutInsideMetadata =>
        /\ stage = "Failed"
        /\ error.kind = "Truncated"
        /\ decoded = <<>>

(***************************************************************************)
(* C3, as stated, for a maximum nesting depth of MaxNest - 1: an array     *)
(* nested one level deeper makes the decode fail with TooDeep.  (The       *)
(* decoder takes no maximum; the same holds for every other value of it.)  *)
(***************************************************************************)
C3_TooDeepBeyondMaximum ==
    ( /\ WellFormedMetadata
      /\ input.n_kv >= 1
      /\ input.entries[1].depth = MaxNest )
    => ( stage = "Failed" /\ error.kind = "TooDeep" )

(***************************************************************************)
(* C4: a session moves only along Start, HeaderDecoded, MetadataDecoded,   *)
(* TensorsDecoded, Ready, one stage at a time; a stage whose decode fails  *)
(* moves it to Failed; nothing runs after Ready or Failed.                 *)
(***************************************************************************)
NextStage(st) ==
    CASE st = "Start" -> "HeaderDecoded"
      [] st = "HeaderDecoded" -> "MetadataDecoded"
      [] st = "MetadataDecoded" -> "TensorsDecoded"
      [] st = "TensorsDecoded" -> "Ready"

\* whether the decode of the stage about to run succeeds
StageSucceeds ==
    CASE stage = "Start" -> parse_gguf_header(file).ok
      [] stage = "HeaderDecoded" -> parse_metadata(file, pos, header.n_kv).ok
      [] stage = "MetadataDecoded" -> parse_tensors(file, pos, header.n_tensors).ok
      [] stage = "TensorsDecoded" ->
            op = "info" \/ show_tensor(file, pos, tensors, target).ok

C4_StageOrder ==
    [][ /\ stage \notin {"Ready", "Failed"}
        /\ stage' = IF StageSucceeds THEN NextStage(stage) ELSE "Failed"
        /\ (stage' = "Failed") = (error'.kind # "none") ]_vars

\* a session that failed in the metadata stage, after a decoded header
C4_Witness ==
    /\ stage = "Failed"
    /\ ran = "metadata"
    /\ header # NoHeader
    /\ header.n_tensors > 0

(***************************************************************************)
(* C5: on a whole file of recognised tags, parse_metadata(count) decodes   *)
(* exactly count entries, leaves the cursor just past the count-th entry,  *)
(* and returns a table of exactly their keys, each mapped to the value of  *)
(* the key's last occurrence.                                              *)
(***************************************************************************)
LastIndex(key) ==
    CHOOSE i \in 1..input.n_kv :
        /\ KeyOf(input.mode, i) = key
        /\ \A j \in (i + 1)..input.n_kv : KeyOf(input.mode, j) # key

C5_ExactlyCountEntries ==
    WellFormedMetadata =>
        /\ stage = "MetadataDecoded"
        /\ Len(decoded) = input.n_kv
        /\ \A i \in 1..input.n_kv : decoded[i].key = KeyOf(input.mode, i)
        /\ pos = EntryEnd(input.n_kv)
        /\ DOMAIN metadata = { KeyOf(input.mode, i) : i \in 1..input.n_kv }
        /\ \A k \in DOMAIN metadata :
              metadata[k].text = input.entries[LastIndex(k)].text

\* a key that occurs twice with different values, in a file that holds more
C5_Witness ==
    /\ WellFormedMetadata
    /\ stage = "MetadataDecoded"
    /\ input.mode = "same"
    /\ input.n_kv = 2
    /\ input.entries[1].text # input.entries[2].text

(***************************************************************************)
(* C6.  The variant each type tag declares.                                *)
(***************************************************************************)
DeclaredVariant(tag) ==
    CASE tag = 0 -> "Uint8"   [] tag = 1 -> "Int8"
      [] tag = 2 -> "Uint16"  [] tag = 3 -> "Int16"
      [] tag = 4 -> "Uint32"  [] tag = 5 -> "Int32"
      [] tag = 6 -> "Float32" [] tag = 7 -> "Bool"
      [] tag = 8 -> "String"  [] tag = 9 -> "Array"
      [] tag = 10 -> "Uint64" [] tag = 11 -> "Int64"
      [] tag = 12 -> "Float64"
      [] OTHER -> "none"

\* the i-th decoded entry is the last one of its key
LastOfKey(i) == \A j \in (i + 1)..Len(decoded) : decoded[j].key # decoded[i].key

(***************************************************************************)
(* C6, as stated: every value the table holds is a value of the variant    *)
(* that the entry's type tag declares.                                     *)
(***************************************************************************)
C6_TableHoldsTaggedValues ==
    \A i \in 1..Len(decoded) :
        LastOfKey(i) =>
            metadata[decoded[i].key].repr = DeclaredVariant(decoded[i].type_id)

RECURSIVE MatchesTag(_, _)
MatchesTag(x, tag) ==
    /\ x.kind = DeclaredVariant(tag)
    /\ x.kind = "Array" => \A i \in 1..Len(x.v) : MatchesTag(x.v[i], x.elem)

(***************************************************************************)
(* C6, amended: every value parse_gguf_value decodes has the variant its   *)
(* type tag declares, and every element of an array the variant of the     *)
(* array's element tag; the table holds, for each key, not that value but  *)
(* the string its Display gives.                                           *)
(***************************************************************************)
C6_DecodedVariantMatchesTag ==
    \A i \in 1..Len(decoded) :
        /\ MatchesTag(decoded[i].value, decoded[i].type_id)
        /\ LastOfKey(i) =>
              metadata[decoded[i].key] =
                  [repr |-> "String", text |-> to_string(decoded[i].value)]

\* a 64-bit integer and an array of arrays were decoded
C6_Witness ==
    /\ stage = "MetadataDecoded"
    /\ \E i \in 1..Len(decoded) :
          \/ decoded[i].type_id = 11
          \/ /\ decoded[i].type_id = 9
             /\ Len(decoded[i].value.v) > 0
             /\ decoded[i].value.v[1].kind = "Array"

(***************************************************************************)
(* C7: on a file whose first four bytes are not the magic, the session     *)
(* fails with BadMagic with the cursor at 4, and no stage runs after the   *)
(* header stage.                                                           *)
(***************************************************************************)
C7_BadMagicStopsAtFour ==
    ( /\ ran # "none"
      /\ Len(file) >= 4
      /\ SubSeq(file, 1, 4) # Magic )
    => /\ ran = "header"
       /\ stage = "Failed"
       /\ error.kind = "BadMagic"
       /\ pos = 4
       /\ header = NoHeader
       /\ metadata = EmptyTable
       /\ decoded = <<>>
       /\ tensors = <<>>
       /\ preview = <<>>

\* a bad magic followed by more bytes
C7_Witness ==
    /\ stage = "Failed"
    /\ error.kind = "BadMagic"
    /\ Len(file) > 4

ShowsTensor == ran = "show" /\ Find(tensors, target) # 0

Shown_t == tensors[Find(tensors, target)]

C9_PreviewTruncatesGracefully ==
    ( ShowsTensor /\ Shown_t.type_id = Float32Type )
    => /\ stage = "Ready"
       /\ Len(preview) = Min(PrintLimit,
                             Min(Product(Shown_t.ne),
                                 Available(file, Shown_t.offset) \div 4))

DataStart ==
    HeaderLen(input.version) + Len(MetaBytes(input.mode, input.entries, 1))
    + Len(TensorBytes(input.tens, 1))

BytesAt(p) == SubSeq(file, p + 1, p + 4)

C11_OffsetRelativeToDataRegion ==
    ( /\ ShowsTensor
      /\ Shown_t.type_id = Float32Type
      /\ stage = "Ready"
      /\ Available(file, DataStart + Shown_t.offset) >= 4 * Len(preview) )
    => \A i \in 1..Len(preview) :
          preview[i].text
            = int_to_ternary(F32AsI32(BytesAt(DataStart + Shown_t.offset + 4 * (i - 1))))

(***************************************************************************)
(* C12, as stated: the preview of a tensor stored as packed-nibble blocks  *)
(* (a storage type other than plain float32) whose block the file holds    *)
(* yields one value per 4-bit code, in nibble order, low nibble first, and *)
(* a code of 8 yields zero whatever the scale.                             *)
(***************************************************************************)
\* the i-th code of the block at p: two codes per byte after the 4-byte scale
NibbleCode(p, i) ==
    LET byte == file[p + 4 + ((i + 1) \div 2)]
    IN  IF i % 2 = 1 THEN byte % 16 ELSE byte \div 16

BlockPresent(p, n) == Available(file, p) >= 4 + ((n + 1) \div 2)

C12_PackedNibbleDecodes ==
    ( /\ ShowsTensor
      /\ Shown_t.type_id # Float32Type
      /\ Product(Shown_t.ne) > 0
      /\ BlockPresent(Shown_t.offset, Product(Shown_t.ne)) )
    => /\ stage = "Ready"
       /\ Len(preview) = Min(PrintLimit, Product(Shown_t.ne))
       /\ \A i \in 1..Len(preview) :
             NibbleCode(Shown_t.offset, i) = 8 => preview[i].text = <<48>>

(***************************************************************************)
(* C13, as stated: tritjs_eval_expression returns an integer or a          *)
(* ParseError for every input and never aborts the program, whatever the   *)
(* literals and the intermediate results are.                              *)
(***************************************************************************)
C13_EvaluatorNeverAborts == result.kind # "Panic"

(***************************************************************************)
(* C14, as stated: for every i32 n, int_to_ternary(n) is the base-3        *)
(* numeral of |n|: digits 0..2, most significant first, no leading zero,   *)
(* "0" for 0, with one '-' in front exactly when n < 0.                    *)
(***************************************************************************)
\* minus the value of a string of ternary digits
RECURSIVE NegatedValue(_, _)
NegatedValue(digits, acc) ==
    IF digits = <<>> THEN acc
    ELSE NegatedValue(Tail(digits), acc * 3 - (Head(digits) - 48))

IsTernaryOf(s, n) ==
    /\ s # <<>>
    /\ (n < 0) = (s[1] = 45)
    /\ LET digits == IF n < 0 THEN Tail(s) ELSE s
       IN  /\ digits # <<>>
           /\ \A i \in 1..Len(digits) : digits[i] \in 48..50
           /\ Len(digits) > 1 => digits[1] # 48
           /\ NegatedValue(digits, 0) = (IF n < 0 THEN n ELSE -n)

\* the run has reached the printing of the value n
Converted == result.kind = "Ok" /\ step \in {"Printed", "Aborted"}

C14_TernaryOfEveryI32 ==
    Converted => /\ step = "Printed"
                 /\ IsTernaryOf(printed, result.val)

(***************************************************************************)
(* C15: for every n in 0..2^31 - 1, evaluating the string int_to_ternary   *)
(* printed for n returns Ok(n).                                            *)
(***************************************************************************)
\* the expression is a printed result and has been evaluated
Reevaluated == built.family = "printed" /\ result.kind # "None"

C15_RoundTrip ==
    ( Reevaluated /\ built.from >= 0 )
    => /\ result.kind = "Ok"
       /\ result.val = built.from

\* the largest i32 has been printed, entered and evaluated
C15_Witness ==
    /\ Reevaluated
    /\ built.from = MaxI32
    /\ expr = MaxText
    /\ result.val = MaxI32

(***************************************************************************)
(* The reference evaluation of an expression tree: each operator applied   *)
(* to the values of its two operands, / being the quotient truncated       *)
(* toward zero.  It has no value when a divisor is zero.                   *)
(***************************************************************************)
Quotient(a, b) ==
    LET q == Magnitude(a) \div Magnitude(b)
    IN  IF (a < 0) = (b < 0) THEN q ELSE -q

RECURSIVE Reference(_)
Reference(t) ==
    IF Head(t) \notin Operators
    THEN [def |-> TRUE, val |-> Head(t), rest |-> Tail(t)]
    ELSE LET o == Head(t)
             a == Reference(Tail(t))
             b == Reference(a.rest)
             def == a.def /\ b.def /\ (o = 47 => b.val # 0)
         IN  [def |-> def,
              val |-> IF ~def THEN 0
                      ELSE CASE o = 43 -> a.val + b.val
                             [] o = 45 -> a.val - b.val
                             [] o = 42 -> a.val * b.val
                             [] o = 47 -> Quotient(a.val, b.val),
              rest |-> b.rest]

\* the expression is the rendering of a tree and has been evaluated
TreeEvaluated == built.family = "tree" /\ result.kind # "None"

\* the first character of the tail that is not whitespace
FirstLeft(tail) ==
    tail[CHOOSE i \in 1..Len(tail) :
            /\ ~IsWhitespace(tail[i])
            /\ \A j \in 1..(i - 1) : IsWhitespace(tail[j])]

AgreesWithReference ==
    ( TreeEvaluated /\ built.tail = <<>> /\ Reference(built.tree).def )
    => /\ result.kind = "Ok"
       /\ result.val = Reference(built.tree).val

(***************************************************************************)
(* C16, as stated: a well-formed expression evaluates to the value of the  *)
(* reference evaluation, and every input with a character that is not      *)
(* whitespace left after a complete expression is an UnexpectedChar.       *)
(***************************************************************************)
C16_ReferenceAndUnexpectedChar ==
    /\ AgreesWithReference
    /\ ( TreeEvaluated /\ built.tail # <<>> )
       => /\ result.kind = "Err"
          /\ result.err = "UnexpectedChar"
          /\ result.ch = FirstLeft(built.tail)

(***************************************************************************)
(* C16, amended: a well-formed expression evaluates to the value of the    *)
(* reference evaluation; and an input with a character that is not         *)
(* whitespace left after a complete expression that has a value is an      *)
(* UnexpectedChar carrying the first such character, never the value of    *)
(* the expression.  When the expression divides by zero the error is       *)
(* DivisionByZero, whatever follows it.                                    *)
(***************************************************************************)
C16_ReferenceAndUnexpectedCharAfterValue ==
    /\ AgreesWithReference
    /\ ( TreeEvaluated /\ built.tail # <<>> )
       => /\ result.kind = "Err"
          /\ IF Reference(built.tree).def
             THEN /\ result.err = "UnexpectedChar"
                  /\ result.ch = FirstLeft(built.tail)
             ELSE result.err = "DivisionByZero"

\* 21/2 followed by ")": the quotient is not returned, the ")" is refused
C16_Witness ==
    /\ TreeEvaluated
    /\ built.tree = <<47, 7, 2>>
    /\ built.tail = <<41>>
    /\ expr = <<50, 49, 47, 50, 41>>
    /\ result = ParseErr("UnexpectedChar", 41, 4)

====
